---------------------------- MODULE Spec2Model ----------------------------
(***************************************************************************)
(* The J-=2 compiler: lexer and recursive-descent parser (parser.py), the  *)
(* single-pass code generator (j-=2.py), and the stack machine on which    *)
(* the emitted Jasmin text runs.                                           *)
(*                                                                         *)
(* Text is a sequence of one-character strings.  A Python list or tuple is *)
(* a sequence; an AST node ("Let", name, e) is the tuple <<"Let", name, e>>*)
(* (Python index k is index k+1 here).  None is the empty sequence and an  *)
(* optional value x is <<x>>.                                              *)
(***************************************************************************)
EXTENDS Integers, Sequences, FiniteSets, TLC

VARIABLES
  phase,    \* which stage of the pipeline is running
  s,        \* lex: the source text
  pos,      \* lex: scan position of the regex iterator in s
  out,      \* lex: tokens produced so far
  toks,     \* Parser.toks
  i,        \* Parser.i (1-based here)
  calls,    \* the parser's call stack, innermost call last
  ret,      \* the value the last finished parser call returned
  ast,      \* the tree handed to Codegen.gen
  error,    \* the exception that ended the compilation or the run, if any
  cg,       \* the Codegen instance and what is left of its traversal
  result,   \* what Codegen.gen returned, if it returned
  code,     \* machine: the assembled lines
  pc,       \* machine: index in code of the next line
  stack,    \* machine: operand stack, top last
  frame,    \* machine: the local-variable slots that hold a value
  stdout    \* machine: the integers printed so far

vars == <<phase, s, pos, out, toks, i, calls, ret, ast, error, cg, result,
          code, pc, stack, frame, stdout>>

-----------------------------------------------------------------------------
(* Bounds of the model.                                                    *)

MaxSrcLen == 3      \* every source text over LexAlphabet up to this length
MaxToks == 2        \* every token sequence up to this length (before EOF)
MaxVal == 1         \* a variable is set to, or an unset slot reads as, any of 0..MaxVal

MaxBranches == 2    \* if chains of up to this many branches

MaxIter == 3        \* counting loops of up to this many iterations

-----------------------------------------------------------------------------
(* Characters and the lexical rules.                                       *)

Digits == {"0", "1", "2", "3", "4", "5", "6", "7", "8", "9"}

Letters ==
  {"a", "b", "c", "d", "e", "f", "g", "h", "i", "j", "k", "l", "m", "n",
   "o", "p", "q", "r", "s", "t", "u", "v", "w", "x", "y", "z",
   "A", "B", "C", "D", "E", "F", "G", "H", "I", "J", "K", "L", "M", "N",
   "O", "P", "Q", "R", "S", "T", "U", "V", "W", "X", "Y", "Z"}

IdStart == Letters \cup {"_"}

WordChars == IdStart \cup Digits

Whitespace == {" ", "\t", "\r", "\n"}

Run(cls) == [kind |-> "run", cls |-> cls, text |-> <<>>]

Lit(text) == [kind |-> "lit", cls |-> {}, text |-> text]

Ident == [kind |-> "id", cls |-> {}, text |-> <<>>]

Rule(n, p) == [n |-> n, p |-> p]

\* A plausible slip: the single-character rules listed before the
\* two-character ones.
TOK_prefix_first ==
  << Rule("INT", Run(Digits)), Rule("ID", Ident),
     Rule("LT", Lit(<<"<">>)), Rule("GT", Lit(<<">">>)),
     Rule("EQ", Lit(<<"=">>)),
     Rule("LE", Lit(<<"<", "=">>)), Rule("GE", Lit(<<">", "=">>)),
     Rule("EQEQ", Lit(<<"=", "=">>)), Rule("NE", Lit(<<"!", "=">>)),
     Rule("SEMIC", Lit(<<";">>)),
     Rule("LP", Lit(<<"(">>)), Rule("RP", Lit(<<")">>)),
     Rule("LBR", Lit(<<"{">>)), Rule("RBR", Lit(<<"}">>)),
     Rule("PLUS", Lit(<<"+">>)), Rule("MINUS", Lit(<<"-">>)),
     Rule("MUL", Lit(<<"*">>)), Rule("DIV", Lit(<<"/">>)),
     Rule("WS", Run(Whitespace)) >>

TOK ==
  << Rule("INT", Run(Digits)), Rule("ID", Ident),
     Rule("LE", Lit(<<"<", "=">>)), Rule("GE", Lit(<<">", "=">>)),
     Rule("EQEQ", Lit(<<"=", "=">>)), Rule("NE", Lit(<<"!", "=">>)),
     Rule("LT", Lit(<<"<">>)), Rule("GT", Lit(<<">">>)),
     Rule("EQ", Lit(<<"=">>)), Rule("SEMIC", Lit(<<";">>)),
     Rule("LP", Lit(<<"(">>)), Rule("RP", Lit(<<")">>)),
     Rule("LBR", Lit(<<"{">>)), Rule("RBR", Lit(<<"}">>)),
     Rule("PLUS", Lit(<<"+">>)), Rule("MINUS", Lit(<<"-">>)),
     Rule("MUL", Lit(<<"*">>)), Rule("DIV", Lit(<<"/">>)),
     Rule("WS", Run(Whitespace)) >>

RECURSIVE RunLen(_, _, _)
\* Length of the longest run of characters of cls in text from position p.
RunLen(text, p, cls) ==
  IF p <= Len(text) /\ text[p] \in cls
  THEN 1 + RunLen(text, p + 1, cls)
  ELSE 0

\* Length of the match of one rule's pattern at position p, 0 for no match.
MatchLen(pat, text, p) ==
  CASE pat.kind = "run" -> RunLen(text, p, pat.cls)
    [] pat.kind = "id" ->
         IF p <= Len(text) /\ text[p] \in IdStart
         THEN 1 + RunLen(text, p + 1, WordChars)
         ELSE 0
    [] pat.kind = "lit" ->
         IF /\ p + Len(pat.text) - 1 <= Len(text)
            /\ SubSeq(text, p, p + Len(pat.text) - 1) = pat.text
         THEN Len(pat.text)
         ELSE 0

\* TOKEN_REGEX at position p: the alternatives are tried in the order of
\* TOK and the first one that matches wins; 0 when none matches here.
TOKEN_REGEX(text, p) ==
  LET hits == {r \in 1..Len(TOK) : MatchLen(TOK[r].p, text, p) > 0}
  IN  IF hits = {} THEN 0 ELSE CHOOSE r \in hits : \A q \in hits : r <= q

KW ==
  (<<"l", "e", "t">> :> "LET") @@ (<<"p", "r", "i", "n", "t">> :> "PRINT") @@
  (<<"w", "h", "i", "l", "e">> :> "WHILE") @@ (<<"i", "f">> :> "IF") @@
  (<<"e", "l", "s", "e">> :> "ELSE")

Token(t, v) == [t |-> t, v |-> v]

-----------------------------------------------------------------------------
(* Exceptions.  A raised exception is carried in the state record of the   *)
(* computation; every later operation on a failed state leaves it alone,   *)
(* which is how the exception reaches the caller.  fmt is the f-string and *)
(* args are the values interpolated into it, in order.                     *)

NoError == [type |-> "", fmt |-> "", args |-> <<>>]

Failed(st) == st.err.type # ""

Raise(st, type, fmt, args) ==
  IF Failed(st) THEN st
  ELSE [st EXCEPT !.err = [type |-> type, fmt |-> fmt, args |-> args]]

-----------------------------------------------------------------------------
(* parser.py: class Parser.  The recursive descent is run one step at a    *)
(* time on an explicit call stack.  A parser state ps is [i, calls, ret,   *)
(* err].  A frame of the call stack is one active call of a parser method: *)
(* fn is the method, at is where in its body the call stands, and list,    *)
(* name, op and node are its local variables (stmts / body / branches;     *)
(* name; op; node / cond / c).                                             *)

DigitVal ==
  ("0" :> 0) @@ ("1" :> 1) @@ ("2" :> 2) @@ ("3" :> 3) @@ ("4" :> 4) @@
  ("5" :> 5) @@ ("6" :> 6) @@ ("7" :> 7) @@ ("8" :> 8) @@ ("9" :> 9)

RECURSIVE int(_)
\* Python's int() on a text of decimal digits, with an optional sign.
int(text) ==
  IF text = <<>> THEN 0
  ELSE IF text[1] = "-" THEN 0 - int(Tail(text))
  ELSE 10 * int(SubSeq(text, 1, Len(text) - 1)) + DigitVal[text[Len(text)]]

Frame(fn) ==
  [fn |-> fn, at |-> "start", list |-> <<>>, name |-> <<>>, op |-> "",
   node |-> <<>>]

Parser(tk) ==
  [i |-> 1, calls |-> <<Frame("program")>>, ret |-> <<>>, err |-> NoError]

cur(tk, ps) == tk[ps.i]

\* A plausible slip: the position moves on before the mismatch is reported.
eat_then_check(tk, ps, kind) ==
  IF Failed(ps) THEN ps
  ELSE IF cur(tk, ps).t # kind
  THEN [Raise(ps, "SyntaxError", "Expected {kind}, got {cur.t} ({cur.v})",
              <<kind, cur(tk, ps).t, cur(tk, ps).v>>) EXCEPT !.i = @ + 1]
  ELSE [ps EXCEPT !.i = @ + 1]

eat(tk, ps, kind) ==
  IF Failed(ps) THEN ps
  ELSE IF cur(tk, ps).t # kind
  THEN Raise(ps, "SyntaxError", "Expected {kind}, got {cur.t} ({cur.v})",
             <<kind, cur(tk, ps).t, cur(tk, ps).v>>)
  ELSE [ps EXCEPT !.i = @ + 1]

\* The frame of the running call.
top(ps) == ps.calls[Len(ps.calls)]

\* The running call with its locals and position replaced by f.
at(ps, f) ==
  IF Failed(ps) THEN ps ELSE [ps EXCEPT !.calls[Len(ps.calls)] = f]

\* The running call, left standing as f, calls method fn.
call(ps, f, fn) ==
  IF Failed(ps) THEN ps
  ELSE [ps EXCEPT !.calls = Append([@ EXCEPT ![Len(ps.calls)] = f], Frame(fn))]

\* The running call returns v to its caller.
return(ps, v) ==
  IF Failed(ps) THEN ps
  ELSE [ps EXCEPT !.calls = SubSeq(@, 1, Len(@) - 1), !.ret = v]

program(tk, ps) ==
  LET f == top(ps)
  IN  CASE f.at = "start" ->
             IF cur(tk, ps).t # "EOF"
             THEN call(ps, [f EXCEPT !.at = "stmt"], "stmt")
             ELSE return(ps, <<"Program", f.list>>)
        [] f.at = "stmt" ->
             at(ps, [f EXCEPT !.list = Append(@, ps.ret), !.at = "start"])

\* The list of statements is returned as the one element of a tuple: a
\* returned list is then never taken for a returned node.
block(tk, ps) ==
  LET f == top(ps)
  IN  CASE f.at = "start" -> at(eat(tk, ps, "LBR"), [f EXCEPT !.at = "loop"])
        [] f.at = "loop" ->
             IF cur(tk, ps).t # "RBR"
             THEN call(ps, [f EXCEPT !.at = "stmt"], "stmt")
             ELSE return(eat(tk, ps, "RBR"), <<f.list>>)
        [] f.at = "stmt" ->
             at(ps, [f EXCEPT !.list = Append(@, ps.ret), !.at = "loop"])

if_stmt(tk, ps) ==
  LET f == top(ps)
  IN  CASE f.at = "start" ->
             call(eat(tk, eat(tk, ps, "IF"), "LP"), [f EXCEPT !.at = "cond"], "expr")
        [] f.at = "cond" ->
             call(eat(tk, ps, "RP"), [f EXCEPT !.node = ps.ret, !.at = "block"],
                  "block")
        [] f.at = "block" ->
             at(ps, [f EXCEPT !.list = Append(@, <<f.node, ps.ret[1]>>),
                              !.at = "loop"])
        [] f.at = "loop" ->
             IF cur(tk, ps).t = "ELSE"
             THEN LET e == eat(tk, ps, "ELSE")
                  IN  IF cur(tk, e).t = "IF"
                      THEN call(eat(tk, eat(tk, e, "IF"), "LP"),
                                [f EXCEPT !.at = "cond"], "expr")
                      ELSE call(e, [f EXCEPT !.at = "else"], "block")
             ELSE return(ps, <<"IfChain", f.list, <<>>>>)
        [] f.at = "else" -> return(ps, <<"IfChain", f.list, <<ps.ret[1]>>>>)

stmt(tk, ps) ==
  LET f == top(ps)
  IN  CASE f.at = "start" ->
             CASE cur(tk, ps).t = "LET" ->
                    LET n == eat(tk, ps, "LET")
                    IN  call(eat(tk, eat(tk, n, "ID"), "EQ"),
                             [f EXCEPT !.name = cur(tk, n).v, !.at = "let"],
                             "expr")
               [] cur(tk, ps).t = "PRINT" ->
                    call(eat(tk, ps, "PRINT"), [f EXCEPT !.at = "print"], "expr")
               [] cur(tk, ps).t = "WHILE" ->
                    call(eat(tk, eat(tk, ps, "WHILE"), "LP"),
                         [f EXCEPT !.at = "cond"], "expr")
               [] cur(tk, ps).t = "IF" ->
                    call(ps, [f EXCEPT !.at = "if"], "if_stmt")
               [] OTHER ->
                    Raise(ps, "SyntaxError",
                          "Bad statement at Token({cur.t},{cur.v})",
                          <<cur(tk, ps).t, cur(tk, ps).v>>)
        [] f.at = "let" ->
             return(eat(tk, ps, "SEMIC"), <<"Let", f.name, ps.ret>>)
        [] f.at = "print" -> return(eat(tk, ps, "SEMIC"), <<"Print", ps.ret>>)
        [] f.at = "cond" ->
             call(eat(tk, ps, "RP"), [f EXCEPT !.node = ps.ret, !.at = "body"],
                  "block")
        [] f.at = "body" -> return(ps, <<"While", f.node, ps.ret[1]>>)
        [] f.at = "if" -> return(ps, ps.ret)

\* A plausible slip: == and != bind tighter than the relational operators.
Level_swapped(fn) ==
  CASE fn \in {"expr", "equality"} ->
         [ops |-> {"LT", "GT", "LE", "GE"}, next |-> "relational", tag |-> "Cmp"]
    [] fn = "relational" ->
         [ops |-> {"EQEQ", "NE"}, next |-> "additive", tag |-> "Cmp"]
    [] fn = "additive" ->
         [ops |-> {"PLUS", "MINUS"}, next |-> "term", tag |-> "Bin"]
    [] fn = "term" ->
         [ops |-> {"MUL", "DIV"}, next |-> "factor", tag |-> "Bin"]

\* What tells equality, relational, additive and term apart: the operators
\* the level folds, the method it calls for its operands, and the node it
\* builds.  expr returns self.equality().
Level(fn) ==
  CASE fn \in {"expr", "equality"} ->
         [ops |-> {"EQEQ", "NE"}, next |-> "relational", tag |-> "Cmp"]
    [] fn = "relational" ->
         [ops |-> {"LT", "GT", "LE", "GE"}, next |-> "additive", tag |-> "Cmp"]
    [] fn = "additive" ->
         [ops |-> {"PLUS", "MINUS"}, next |-> "term", tag |-> "Bin"]
    [] fn = "term" ->
         [ops |-> {"MUL", "DIV"}, next |-> "factor", tag |-> "Bin"]

\* equality, relational, additive, term: node = next(); while the current
\* token is one of ops: consume it, rhs = next(), node = (tag, op, node, rhs).
binary(tk, ps) ==
  LET f == top(ps)
      lv == Level(f.fn)
  IN  CASE f.at = "start" -> call(ps, [f EXCEPT !.at = "first"], lv.next)
        [] f.at = "first" -> at(ps, [f EXCEPT !.node = ps.ret, !.at = "loop"])
        [] f.at = "loop" ->
             IF cur(tk, ps).t \in lv.ops
             THEN call([ps EXCEPT !.i = @ + 1],
                       [f EXCEPT !.op = cur(tk, ps).t, !.at = "rhs"], lv.next)
             ELSE return(ps, f.node)
        [] f.at = "rhs" ->
             at(ps, [f EXCEPT !.node = <<lv.tag, f.op, f.node, ps.ret>>,
                              !.at = "loop"])

factor(tk, ps) ==
  LET f == top(ps)
  IN  CASE f.at = "start" ->
             CASE cur(tk, ps).t = "INT" ->
                    return(eat(tk, ps, "INT"), <<"Int", int(cur(tk, ps).v)>>)
               [] cur(tk, ps).t = "ID" ->
                    return(eat(tk, ps, "ID"), <<"Var", cur(tk, ps).v>>)
               [] cur(tk, ps).t = "LP" ->
                    call(eat(tk, ps, "LP"), [f EXCEPT !.at = "paren"], "expr")
               [] OTHER ->
                    Raise(ps, "SyntaxError",
                          "Bad factor at Token({cur.t},{cur.v})",
                          <<cur(tk, ps).t, cur(tk, ps).v>>)
        [] f.at = "paren" -> return(eat(tk, ps, "RP"), ps.ret)

\* One step of the running parser method.
parser_step(tk, ps) ==
  CASE top(ps).fn = "program" -> program(tk, ps)
    [] top(ps).fn = "block" -> block(tk, ps)
    [] top(ps).fn = "if_stmt" -> if_stmt(tk, ps)
    [] top(ps).fn = "stmt" -> stmt(tk, ps)
    [] top(ps).fn = "factor" -> factor(tk, ps)
    [] OTHER -> binary(tk, ps)

-----------------------------------------------------------------------------
(* j-=2.py: class Codegen.  A generator state g holds the instance's       *)
(* fields locals, next_slot, lines and lbl, the exception err, and work:   *)
(* what is left to do of the traversal, next task first.  A task is a node *)
(* to visit or the rest of a method body that follows its recursive calls. *)
(* A line of output is the sequence of the pieces of text it is built      *)
(* from, numbers in decimal with one character per piece.                  *)

max_stack_guess == 32

limit_locals == 64

Codegen ==
  [locals |-> <<>>, next_slot |-> 1, lines |-> <<>>, lbl |-> 0,
   work |-> <<>>, err |-> NoError]

DigitChar == [d \in 0..9 |-> CHOOSE c \in Digits : DigitVal[c] = d]

RECURSIVE str(_)
\* Python's str() of an integer, as an f-string interpolates it.
str(n) ==
  IF n < 0 THEN <<"-">> \o str(0 - n)
  ELSE IF n < 10 THEN <<DigitChar[n]>>
  ELSE str(n \div 10) \o <<DigitChar[n % 10]>>

\* A plausible slip: the counter is read but not advanced.
new_label_stuck(g, base) ==
  [g |-> g, name |-> <<base>> \o str(g.lbl + 1)]

\* Returns the updated instance and the label name.
new_label(g, base) ==
  IF Failed(g) THEN [g |-> g, name |-> <<>>]
  ELSE [g |-> [g EXCEPT !.lbl = @ + 1], name |-> <<base>> \o str(g.lbl + 1)]

\* A plausible slip: the slot counter is not advanced after an allocation.
slot_of_reuse(g, name) ==
  IF Failed(g) THEN [g |-> g, slot |-> 0]
  ELSE IF name \notin DOMAIN g.locals
  THEN [g |-> [g EXCEPT !.locals = @ @@ (name :> g.next_slot)],
        slot |-> g.next_slot]
  ELSE [g |-> g, slot |-> g.locals[name]]

\* Returns the updated instance and the slot.
slot_of(g, name) ==
  IF Failed(g) THEN [g |-> g, slot |-> 0]
  ELSE IF name \notin DOMAIN g.locals
  THEN [g |-> [g EXCEPT !.locals = @ @@ (name :> g.next_slot),
                        !.next_slot = @ + 1],
        slot |-> g.next_slot]
  ELSE [g |-> g, slot |-> g.locals[name]]

emit(g, line) ==
  IF Failed(g) THEN g ELSE [g EXCEPT !.lines = Append(@, line)]

emit_iload(g, slot) ==
  emit(g, IF 0 <= slot /\ slot <= 3
          THEN <<"  iload_">> \o str(slot)
          ELSE <<"  iload ">> \o str(slot))

emit_istore(g, slot) ==
  emit(g, IF 0 <= slot /\ slot <= 3
          THEN <<"  istore_">> \o str(slot)
          ELSE <<"  istore ">> \o str(slot))

\* Put tasks in front of what is left to do.
then(g, tasks) == IF Failed(g) THEN g ELSE [g EXCEPT !.work = tasks \o @]

Visit(kind, nodes) == [n \in 1..Len(nodes) |-> <<kind, nodes[n]>>]

Emit(line) == <<"emit", line>>

\* The dict literal of gen_expr's Cmp case.
jmp ==
  ("LT" :> "  if_icmplt ") @@ ("LE" :> "  if_icmple ") @@
  ("GT" :> "  if_icmpgt ") @@ ("GE" :> "  if_icmpge ") @@
  ("EQEQ" :> "  if_icmpeq ") @@ ("NE" :> "  if_icmpne ")

\* A plausible slip: the false path is not sent past the true path.
gen_cmp_fallthrough(g, op) ==
  LET Ltrue == new_label(g, "Cmp_true_")
      Lend == new_label(Ltrue.g, "Cmp_end_")
  IN  IF op \notin DOMAIN jmp THEN Raise(Lend.g, "KeyError", "{op}", <<op>>)
      ELSE then(Lend.g, << Emit(<<jmp[op]>> \o Ltrue.name),
                           Emit(<<"  iconst_0">>),
                           Emit(Ltrue.name \o <<":">>),
                           Emit(<<"  iconst_1">>),
                           Emit(Lend.name \o <<":">>) >>)

\* gen_expr, Cmp, after both operands: two labels, then the six lines that
\* reduce the comparison to 0 or 1.
gen_cmp(g, op) ==
  LET Ltrue == new_label(g, "Cmp_true_")
      Lend == new_label(Ltrue.g, "Cmp_end_")
  IN  IF op \notin DOMAIN jmp THEN Raise(Lend.g, "KeyError", "{op}", <<op>>)
      ELSE then(Lend.g, << Emit(<<jmp[op]>> \o Ltrue.name),
                           Emit(<<"  iconst_0">>),
                           Emit(<<"  goto ">> \o Lend.name),
                           Emit(Ltrue.name \o <<":">>),
                           Emit(<<"  iconst_1">>),
                           Emit(Lend.name \o <<":">>) >>)

\* gen_expr, Bin, after both operands.
gen_bin(g, op) ==
  CASE op = "PLUS" -> emit(g, <<"  iadd">>)
    [] op = "MINUS" -> emit(g, <<"  isub">>)
    [] op = "MUL" -> emit(g, <<"  imul">>)
    [] op = "DIV" -> emit(g, <<"  idiv">>)
    [] OTHER -> Raise(g, "ValueError", "Unknown binop {op}", <<op>>)

gen_expr(g, node) ==
  CASE node[1] = "Int" -> emit(g, <<"  sipush ">> \o str(node[2]))
    [] node[1] = "Var" ->
         LET r == slot_of(g, node[2]) IN emit_iload(r.g, r.slot)
    [] node[1] = "Bin" ->
         then(g, << <<"expr", node[3]>>, <<"expr", node[4]>>, <<"bin", node[2]>> >>)
    [] node[1] = "Cmp" ->
         then(g, << <<"expr", node[3]>>, <<"expr", node[4]>>, <<"cmp", node[2]>> >>)
    [] OTHER -> Raise(g, "ValueError", "Unknown expr node {node}", <<node>>)

\* gen_stmt, Let, after the value expression.
gen_store(g, name) == LET r == slot_of(g, name) IN emit_istore(r.g, r.slot)

\* A plausible slip: a branch body is not followed by the jump to the end.
gen_branch_fallthrough(g, branch, Lend) ==
  LET Lnext == new_label(g, "If_next_")
  IN  then(Lnext.g,
           << <<"expr", branch[1]>>, Emit(<<"  ifeq ">> \o Lnext.name) >>
             \o Visit("stmt", branch[2])
             \o << Emit(Lnext.name \o <<":">>) >>)

\* One turn of gen_stmt's loop over the branches of an IfChain.
gen_branch(g, branch, Lend) ==
  LET Lnext == new_label(g, "If_next_")
  IN  then(Lnext.g,
           << <<"expr", branch[1]>>, Emit(<<"  ifeq ">> \o Lnext.name) >>
             \o Visit("stmt", branch[2])
             \o << Emit(<<"  goto ">> \o Lend), Emit(Lnext.name \o <<":">>) >>)

gen_if(g, branches, else_block) ==
  LET Lend == new_label(g, "If_end_")
  IN  then(Lend.g,
           [n \in 1..Len(branches) |-> <<"branch", branches[n], Lend.name>>]
             \o (IF else_block # <<>> THEN Visit("stmt", else_block[1]) ELSE <<>>)
             \o << Emit(Lend.name \o <<":">>) >>)

\* A plausible slip: the body does not jump back to the test.
gen_while_once(g, cond, body) ==
  LET Ltest == new_label(g, "Loop_test_")
      Lend == new_label(Ltest.g, "Loop_end_")
  IN  then(emit(Lend.g, Ltest.name \o <<":">>),
           << <<"expr", cond>>, Emit(<<"  ifeq ">> \o Lend.name) >>
             \o Visit("stmt", body)
             \o << Emit(Lend.name \o <<":">>) >>)

gen_while(g, cond, body) ==
  LET Ltest == new_label(g, "Loop_test_")
      Lend == new_label(Ltest.g, "Loop_end_")
  IN  then(emit(Lend.g, Ltest.name \o <<":">>),
           << <<"expr", cond>>, Emit(<<"  ifeq ">> \o Lend.name) >>
             \o Visit("stmt", body)
             \o << Emit(<<"  goto ">> \o Ltest.name),
                   Emit(Lend.name \o <<":">>) >>)

gen_stmt(g, node) ==
  CASE node[1] = "Let" ->
         then(g, << <<"expr", node[3]>>, <<"store", node[2]>> >>)
    [] node[1] = "Print" ->
         then(emit(g, <<"  getstatic java/lang/System/out Ljava/io/PrintStream;">>),
              << <<"expr", node[2]>>,
                 Emit(<<"  invokevirtual java/io/PrintStream/println(I)V">>) >>)
    [] node[1] = "While" -> gen_while(g, node[2], node[3])
    [] node[1] = "IfChain" -> gen_if(g, node[2], node[3])
    [] OTHER -> Raise(g, "ValueError", "Unknown stmt node {node}", <<node>>)

\* gen, up to its loop over the statements: the twelve lines of the class
\* and method headers; the statements and the two closing lines are left
\* to do.
gen(g, tree, class_name) ==
  LET g1 == emit(g, <<".class public ">> \o class_name)
      g2 == emit(g1, <<".super java/lang/Object">>)
      g3 == emit(g2, <<>>)
      g4 == emit(g3, <<".method public <init>()V">>)
      g5 == emit(g4, <<"  aload_0">>)
      g6 == emit(g5, <<"  invokespecial java/lang/Object/<init>()V">>)
      g7 == emit(g6, <<"  return">>)
      g8 == emit(g7, <<".end method">>)
      g9 == emit(g8, <<>>)
      g10 == emit(g9, <<".method public static main([Ljava/lang/String;)V">>)
      g11 == emit(g10, <<"  .limit stack ">> \o str(max_stack_guess))
      g12 == emit(g11, <<"  .limit locals ">> \o str(limit_locals))
  IN  IF Len(tree) < 2
      THEN Raise(g12, "IndexError", "tuple index out of range", <<>>)
      ELSE then(g12, Visit("stmt", tree[2])
                       \o << Emit(<<"  return">>), Emit(<<".end method">>) >>)

\* The next task of the traversal, taken off the list and carried out.
gen_step(g) ==
  LET task == Head(g.work)
      rest == [g EXCEPT !.work = Tail(@)]
  IN  CASE task[1] = "stmt" -> gen_stmt(rest, task[2])
        [] task[1] = "expr" -> gen_expr(rest, task[2])
        [] task[1] = "store" -> gen_store(rest, task[2])
        [] task[1] = "bin" -> gen_bin(rest, task[2])
        [] task[1] = "cmp" -> gen_cmp(rest, task[2])
        [] task[1] = "branch" -> gen_branch(rest, task[2], task[3])
        [] task[1] = "emit" -> emit(rest, task[2])

-----------------------------------------------------------------------------
(* The target machine.  jasmin_to_bytecode hands the text to the assembler *)
(* and the class is run with `java -cp out <name>`: execution starts at    *)
(* the first line of main and follows the instructions gen emitted.  The   *)
(* text is kept as its lines: "\n".join and the assembler's reading of the *)
(* text line by line cancel, no line holding a newline.                    *)

MainHeader == <<".method public static main([Ljava/lang/String;)V">>

Entry(lines) == 1 + CHOOSE n \in 1..Len(lines) : lines[n] = MainHeader

IsLabel(line) == Len(line) >= 2 /\ line[Len(line)] = ":"

Directives == {"  .limit stack ", "  .limit locals "}

Opcode(line) == IF line = <<>> \/ IsLabel(line) THEN "" ELSE line[1]

Operand(line) == Tail(line)

\* The lines that define the label a jump names.
Targets(lines, name) == {n \in 1..Len(lines) : lines[n] = name \o <<":">>}

\* idiv truncates toward zero.
Idiv(a, b) ==
  LET q == (IF a < 0 THEN 0 - a ELSE a) \div (IF b < 0 THEN 0 - b ELSE b)
  IN  IF (a < 0) = (b < 0) THEN q ELSE 0 - q

\* The int instructions.  The machine's int is 32 bits wide, as are the
\* integers of TLC; every value computed here stays far inside that range.
Arith(op, a, b) ==
  CASE op = "  iadd" -> a + b
    [] op = "  isub" -> a - b
    [] op = "  imul" -> a * b
    [] op = "  idiv" -> Idiv(a, b)

Holds(op, a, b) ==
  CASE op = "  if_icmplt " -> a < b
    [] op = "  if_icmple " -> a <= b
    [] op = "  if_icmpgt " -> a > b
    [] op = "  if_icmpge " -> a >= b
    [] op = "  if_icmpeq " -> a = b
    [] op = "  if_icmpne " -> a # b

Running == phase = "run" /\ pc <= Len(code)

Depth == Len(stack)

Top(n) == stack[Depth - n]

Pop(n) == SubSeq(stack, 1, Depth - n)

-----------------------------------------------------------------------------
(* Actions.                                                                *)

lexv == <<s, pos, out>>

parsev == <<toks, i, calls, ret>>

genv == <<cg, result>>

runv == <<code, pc, stack, frame, stdout>>

\* One match of TOKEN_REGEX.finditer that becomes a token.
LexToken ==
  /\ phase = "lex" /\ pos <= Len(s)
  /\ TOKEN_REGEX(s, pos) # 0
  /\ TOK[TOKEN_REGEX(s, pos)].n # "WS"
  /\ LET r == TOK[TOKEN_REGEX(s, pos)]
         v == SubSeq(s, pos, pos + MatchLen(r.p, s, pos) - 1)
         t == IF r.n = "ID" /\ v \in DOMAIN KW THEN KW[v] ELSE r.n
     IN  /\ out' = Append(out, Token(t, v))
         /\ pos' = pos + Len(v)
  /\ UNCHANGED <<phase, s, parsev, ast, error, genv, runv>>

\* A whitespace match is dropped; a character no rule matches is passed
\* over by finditer's search for the next match.
LexSkip ==
  /\ phase = "lex" /\ pos <= Len(s)
  /\ LET r == TOKEN_REGEX(s, pos)
     IN  /\ IF r = 0 THEN TRUE ELSE TOK[r].n = "WS"
         /\ pos' = IF r = 0 THEN pos + 1 ELSE pos + MatchLen(TOK[r].p, s, pos)
  /\ UNCHANGED <<phase, s, out, parsev, ast, error, genv, runv>>

\* return out + [Token("EOF", "")], and parse hands it to Parser(...).
LexEOF ==
  /\ phase = "lex" /\ pos > Len(s)
  /\ toks' = Append(out, Token("EOF", <<>>))
  /\ phase' = "parse"
  /\ UNCHANGED <<lexv, i, calls, ret, ast, error, genv, runv>>

\* One step of Parser(toks).program(); its result is handed to gen.
ParseStep ==
  /\ phase = "parse"
  /\ LET ps == parser_step(toks, [i |-> i, calls |-> calls, ret |-> ret,
                                  err |-> NoError])
     IN  /\ i' = ps.i /\ calls' = ps.calls /\ ret' = ps.ret
         /\ error' = ps.err
         /\ phase' = IF Failed(ps) THEN "failed"
                     ELSE IF ps.calls = <<>> THEN "gen" ELSE "parse"
         /\ ast' = IF ~Failed(ps) /\ ps.calls = <<>> THEN ps.ret ELSE ast
  /\ UNCHANGED <<lexv, toks, genv, runv>>

\* Codegen().gen(ast, class_name), to the start of its loop.
GenBegin ==
  /\ phase = "gen" /\ cg.lines = <<>>
  /\ cg' = gen(Codegen, ast, <<"M", "a", "i", "n">>)
  /\ error' = cg'.err
  /\ phase' = IF Failed(cg') THEN "failed" ELSE "gen"
  /\ UNCHANGED <<lexv, parsev, ast, result, runv>>

GenTask(kinds) ==
  /\ phase = "gen" /\ cg.lines # <<>> /\ cg.work # <<>>
  /\ Head(cg.work)[1] \in kinds
  /\ cg' = gen_step(cg)
  /\ error' = cg'.err
  /\ phase' = IF Failed(cg') THEN "failed" ELSE "gen"
  /\ UNCHANGED <<lexv, parsev, ast, result, runv>>

GenStmt == GenTask({"stmt"})

GenExpr == GenTask({"expr"})

\* What follows the recursive calls in Let, Bin, Cmp and an IfChain branch.
GenRest == GenTask({"store", "bin", "cmp", "branch"})

GenEmit == GenTask({"emit"})

\* return "\n".join(self.lines)
GenEnd ==
  /\ phase = "gen" /\ cg.lines # <<>> /\ cg.work = <<>>
  /\ result' = <<cg.lines>>
  /\ phase' = "assemble"
  /\ UNCHANGED <<lexv, parsev, ast, error, cg, runv>>

Load ==
  /\ phase = "assemble"
  /\ code' = result[1]
  /\ pc' = Entry(code')
  /\ phase' = "run"
  /\ UNCHANGED <<lexv, parsev, ast, error, genv, stack, frame, stdout>>

Quiet == <<lexv, parsev, ast, genv, code>>

\* A label definition or a .limit directive: nothing to execute.
StepLabel ==
  /\ Running
  /\ IsLabel(code[pc]) \/ Opcode(code[pc]) \in Directives
  /\ pc' = pc + 1
  /\ UNCHANGED <<Quiet, phase, error, stack, frame, stdout>>

StepPush ==
  /\ Running
  /\ Opcode(code[pc]) \in {"  sipush ", "  iconst_0", "  iconst_1"}
  /\ stack' = Append(stack,
                CASE Opcode(code[pc]) = "  sipush " -> int(Operand(code[pc]))
                  [] Opcode(code[pc]) = "  iconst_0" -> 0
                  [] Opcode(code[pc]) = "  iconst_1" -> 1)
  /\ pc' = pc + 1
  /\ UNCHANGED <<Quiet, phase, error, frame, stdout>>

\* A slot never stored to holds no defined value.  A machine that verifies
\* the class refuses it (VerifyError); one that does not reads whatever the
\* slot holds, any of 0..MaxVal here, and the slot keeps that value.
StepLoad ==
  /\ Running
  /\ Opcode(code[pc]) \in {"  iload_", "  iload "}
  /\ LET slot == int(Operand(code[pc]))
     IN  \/ /\ \E v \in IF slot \in DOMAIN frame THEN {frame[slot]} ELSE 0..MaxVal :
                 /\ frame' = IF slot \in DOMAIN frame THEN frame
                             ELSE frame @@ (slot :> v)
                 /\ stack' = Append(stack, v)
            /\ pc' = pc + 1
            /\ UNCHANGED <<phase, error>>
         \/ /\ slot \notin DOMAIN frame
            /\ phase' = "fault"
            /\ error' = [type |-> "VerifyError",
                         fmt |-> "Accessing value from uninitialized register {slot}",
                         args |-> <<slot>>]
            /\ UNCHANGED <<pc, stack, frame>>
  /\ UNCHANGED <<Quiet, stdout>>


StepStore ==
  /\ Running
  /\ Opcode(code[pc]) \in {"  istore_", "  istore "}
  /\ Depth >= 1
  /\ LET slot == int(Operand(code[pc]))
     IN  frame' = [n \in DOMAIN frame \cup {slot} |->
                     IF n = slot THEN Top(0) ELSE frame[n]]
  /\ stack' = Pop(1)
  /\ pc' = pc + 1
  /\ UNCHANGED <<Quiet, phase, error, stdout>>

\* idiv by zero throws ArithmeticException, which ends the run.
StepArith ==
  /\ Running
  /\ Opcode(code[pc]) \in {"  iadd", "  isub", "  imul", "  idiv"}
  /\ Depth >= 2
  /\ IF Opcode(code[pc]) = "  idiv" /\ Top(0) = 0
     THEN /\ phase' = "fault"
          /\ error' = [type |-> "ArithmeticException", fmt |-> "/ by zero",
                       args |-> <<>>]
          /\ UNCHANGED <<pc, stack>>
     ELSE /\ stack' = Append(Pop(2), Arith(Opcode(code[pc]), Top(1), Top(0)))
          /\ pc' = pc + 1
          /\ UNCHANGED <<phase, error>>
  /\ UNCHANGED <<Quiet, frame, stdout>>

StepIfIcmp ==
  /\ Running
  /\ Opcode(code[pc]) \in {jmp[op] : op \in DOMAIN jmp}
  /\ Depth >= 2
  /\ stack' = Pop(2)
  /\ IF Holds(Opcode(code[pc]), Top(1), Top(0))
     THEN pc' \in Targets(code, Operand(code[pc]))
     ELSE pc' = pc + 1
  /\ UNCHANGED <<Quiet, phase, error, frame, stdout>>

StepIfeq ==
  /\ Running
  /\ Opcode(code[pc]) = "  ifeq "
  /\ Depth >= 1
  /\ stack' = Pop(1)
  /\ IF Top(0) = 0
     THEN pc' \in Targets(code, Operand(code[pc]))
     ELSE pc' = pc + 1
  /\ UNCHANGED <<Quiet, phase, error, frame, stdout>>

StepGoto ==
  /\ Running
  /\ Opcode(code[pc]) = "  goto "
  /\ pc' \in Targets(code, Operand(code[pc]))
  /\ UNCHANGED <<Quiet, phase, error, stack, frame, stdout>>

StepGetstatic ==
  /\ Running
  /\ Opcode(code[pc]) = "  getstatic java/lang/System/out Ljava/io/PrintStream;"
  /\ stack' = Append(stack, "System.out")
  /\ pc' = pc + 1
  /\ UNCHANGED <<Quiet, phase, error, frame, stdout>>

StepPrintln ==
  /\ Running
  /\ Opcode(code[pc]) = "  invokevirtual java/io/PrintStream/println(I)V"
  /\ Depth >= 2
  /\ stdout' = Append(stdout, Top(0))
  /\ stack' = Pop(2)
  /\ pc' = pc + 1
  /\ UNCHANGED <<Quiet, phase, error, frame>>

StepReturn ==
  /\ Running
  /\ Opcode(code[pc]) = "  return"
  /\ phase' = "halted"
  /\ UNCHANGED <<Quiet, error, pc, stack, frame, stdout>>

Step ==
  \/ StepLabel \/ StepPush \/ StepLoad \/ StepStore \/ StepArith
  \/ StepIfIcmp \/ StepIfeq \/ StepGoto \/ StepGetstatic \/ StepPrintln
  \/ StepReturn

-----------------------------------------------------------------------------
(* Inputs: source texts.                                                   *)

SrcLetBad ==
  <<
    "l", "e", "t", " ", "x", " ", "=", " ", ";" >>

SrcLetSelf ==
  <<
    "l", "e", "t", " ", "x", " ", "=", " ", "x", " ", "+", " ", "1", ";" >>

SrcChain ==
  <<
    "p", "r", "i", "n", "t", " ", "a", " ", "<", " ", "b", " ", "=", "=", " ",
    "c", ";" >>

SrcIf ==
  <<
    "l", "e", "t", " ", "x", " ", "=", " ", "0", ";", "\n", "i", "f", " ", "(",
    "x", ")", " ", "{", " ", "p", "r", "i", "n", "t", " ", "1", ";", " ", "}",
    " ", "e", "l", "s", "e", " ", "i", "f", " ", "(", "0", " ", "=", "=", " ",
    "0", ")", " ", "{", " ", "p", "r", "i", "n", "t", " ", "2", ";", " ", "}",
    " ", "e", "l", "s", "e", " ", "{", " ", "p", "r", "i", "n", "t", " ", "3",
    ";", " ", "}" >>

SrcWhile ==
  <<
    "l", "e", "t", " ", "x", " ", "=", " ", "0", ";", "\n", "w", "h", "i", "l",
    "e", " ", "(", "x", " ", "<", " ", "3", ")", " ", "{", "\n", " ", " ", "p",
    "r", "i", "n", "t", " ", "x", ";", "\n", " ", " ", "l", "e", "t", " ", "x",
    " ", "=", " ", "x", " ", "+", " ", "1", ";", "\n", "}" >>

(* Inputs: source texts.                                                   *)

LexAlphabet == {"<", "=", ">", "!", "1", "a", " ", "$"}

Texts(alphabet, n) == UNION {[1..m -> alphabet] : m \in 0..n}

Sources ==
  {SrcLetBad, SrcLetSelf, SrcChain, SrcIf, SrcWhile}
    \cup Texts(LexAlphabet, MaxSrcLen)

(* Inputs: token sequences, as lex returns them: no WS token, one EOF      *)
(* token, at the end.                                                      *)

Keywords == {KW[w] : w \in DOMAIN KW}

Kinds == ({TOK[r].n : r \in 1..Len(TOK)} \ {"WS"}) \cup Keywords

\* A text that lexes to a token of the kind.
TextOf(kind) ==
  CASE kind = "INT" -> <<"1">>
    [] kind = "ID" -> <<"x">>
    [] kind = "EOF" -> <<>>
    [] kind \in Keywords -> CHOOSE w \in DOMAIN KW : KW[w] = kind
    [] OTHER -> TOK[CHOOSE r \in 1..Len(TOK) : TOK[r].n = kind].p.text

Tokens(kinds) == [n \in 1..Len(kinds) |-> Token(kinds[n], TextOf(kinds[n]))]

\* let x = ;
ToksLetBad == <<"LET", "ID", "EQ", "SEMIC", "EOF">>

\* print x < x == x;
ToksChain == <<"PRINT", "ID", "LT", "ID", "EQEQ", "ID", "SEMIC", "EOF">>

\* let x = (1 + x) * 1 / x - 1 >= x != 1;
ToksArith ==
  <<"LET", "ID", "EQ", "LP", "INT", "PLUS", "ID", "RP", "MUL", "INT", "DIV",
    "ID", "MINUS", "INT", "GE", "ID", "NE", "INT", "SEMIC", "EOF">>

\* if (x) { print 1; } else if (1 > 1) { } else { let x = 1; }
ToksIf ==
  <<"IF", "LP", "ID", "RP", "LBR", "PRINT", "INT", "SEMIC", "RBR",
    "ELSE", "IF", "LP", "INT", "GT", "INT", "RP", "LBR", "RBR",
    "ELSE", "LBR", "LET", "ID", "EQ", "INT", "SEMIC", "RBR", "EOF">>

\* while (x <= 1) { print x; }
ToksWhile ==
  <<"WHILE", "LP", "ID", "LE", "INT", "RP", "LBR", "PRINT", "ID", "SEMIC",
    "RBR", "EOF">>

\* Token sequences the parser accepts.
ValidToks == {ToksChain, ToksArith, ToksIf, ToksWhile}

\* A sequence with the token at n replaced by one of kind.
Replaced(kinds, n, kind) == [kinds EXCEPT ![n] = kind]

\* A sequence cut short before the token at n.
Cut(kinds, n) == Append(SubSeq(kinds, 1, n - 1), "EOF")

TokInputs ==
  {Tokens(ks) : ks \in
     ValidToks \cup {ToksLetBad}
       \cup UNION {{Replaced(b, n, kd) : n \in 1..(Len(b) - 1), kd \in Kinds}
                     : b \in ValidToks}
       \cup UNION {{Cut(b, n) : n \in 1..(Len(b) - 1)} : b \in ValidToks}
       \cup {Append(ks0, "EOF") : ks0 \in Texts(Kinds, MaxToks)}}

(* Inputs: trees, built directly.                                          *)

Program(stmts) == <<"Program", stmts>>

Let(name, e) == <<"Let", name, e>>

Show(e) == <<"Print", e>>

While(cond, body) == <<"While", cond, body>>

IfChain(branches, else_block) == <<"IfChain", branches, else_block>>

Bin(op, a, b) == <<"Bin", op, a, b>>

Cmp(op, a, b) == <<"Cmp", op, a, b>>

IntLit(v) == <<"Int", v>>

Var(name) == <<"Var", name>>

None == <<>>

Some(x) == <<x>>

X == <<"x">>

Y == <<"y">>

\* Expressions: the leaves, every operator over two leaves, and an operator
\* nested in either operand of another.
Leaves == {IntLit(0), IntLit(2), Var(X), Var(Y)}

Mk(op, a, b) == IF op \in DOMAIN jmp THEN Cmp(op, a, b) ELSE Bin(op, a, b)

Operators == {"PLUS", "MINUS", "MUL", "DIV"} \cup DOMAIN jmp

Flat == {Mk(op, a, b) : op \in Operators, a \in Leaves, b \in Leaves}

Nested ==
  LET ops == {"PLUS", "DIV", "LT", "EQEQ"}
      few == {IntLit(2), Var(X)}
      inner == {Mk(op, a, b) : op \in ops, a \in few, b \in few}
  IN  {Mk(op, e, c) : op \in ops, e \in inner, c \in few}
        \cup {Mk(op, c, e) : op \in ops, e \in inner, c \in few}

ExprPrograms ==
  {Program(<<Show(e)>>) : e \in Leaves \cup Flat \cup Nested}
    \cup {Program(<<Let(Y, e), Show(Var(Y))>>) : e \in Leaves \cup Nested}

\* let x = x + 1;
LetSelf == Program(<<Let(X, Bin("PLUS", Var(X), IntLit(1)))>>)

\* let x = v; let y = 1;
Set(v) == <<Let(X, IntLit(v)), Let(Y, IntLit(1))>>

\* If chains: every choice of up to MaxBranches conditions, with and without
\* an else, for every value of x; branch n prints 10 + n, the else prints
\* 99, and 7 is printed after the chain.
Conds == {IntLit(0), IntLit(2), Var(X), Cmp("LT", Var(X), Var(Y))}

Branches(conds) == [n \in 1..Len(conds) |-> <<conds[n], <<Show(IntLit(10 + n))>>>>]

Chain(v, conds, else_block) ==
  Program(Set(v) \o <<IfChain(Branches(conds), else_block), Show(IntLit(7))>>)

ChainPrograms ==
  {Chain(v, cs, e) : v \in 0..MaxVal,
                     cs \in UNION {[1..n -> Conds] : n \in 1..MaxBranches},
                     e \in {None, Some(<<Show(IntLit(99))>>)}}

\* let x = 0; if (x) { print 1; } else if (0 == 0) { print 2; } else { print 3; }
IfExample ==
  Program(<<Let(X, IntLit(0)),
            IfChain(<< <<Var(X), <<Show(IntLit(1))>>>>,
                       <<Cmp("EQEQ", IntLit(0), IntLit(0)), <<Show(IntLit(2))>>>> >>,
                    Some(<<Show(IntLit(3))>>))>>)

\* Chains inside a branch, inside an else, with empty and with longer bodies.
NestedChains ==
  UNION {
    {Program(Set(v) \o
             <<IfChain(<< <<Var(X),
                            <<IfChain(<< <<Cmp("GT", Var(Y), Var(X)),
                                           <<Show(IntLit(21))>>>> >>,
                                      Some(<<Show(IntLit(22))>>))>>>>,
                          <<IntLit(2), <<Show(IntLit(12))>>>> >>, None),
               Show(IntLit(7))>>),
     Program(Set(v) \o
             <<IfChain(<< <<Var(X), <<>>>> >>,
                       Some(<<IfChain(<< <<Cmp("NE", Var(Y), Var(X)),
                                           <<Show(IntLit(21))>>>> >>, None),
                              Show(IntLit(99))>>)),
               Show(IntLit(7))>>),
     Program(Set(v) \o
             <<IfChain(<< <<Cmp("EQEQ", Var(X), IntLit(0)),
                            <<Let(Y, IntLit(5)), Show(Var(Y))>>>>,
                          <<Var(X), <<Show(Var(X)), Show(IntLit(12))>>>> >>,
                       Some(<<>>)),
               Show(IntLit(7))>>)} : v \in 0..MaxVal}

\* let x = 0; while (x < n) { print x; let x = x + 1; }
Count(n) ==
  Program(<<Let(X, IntLit(0)),
            While(Cmp("LT", Var(X), IntLit(n)),
                  <<Show(Var(X)), Let(X, Bin("PLUS", Var(X), IntLit(1)))>>)>>)

WhileExample == Count(3)

\* Loops that never run, spin, count down, nest, and
\* hold an if chain.
Loops ==
  {Program(<<While(IntLit(0), <<Show(IntLit(1))>>), Show(IntLit(7))>>),
   Program(<<While(IntLit(2), <<>>), Show(IntLit(7))>>),
   Program(<<Let(X, IntLit(2)),
             While(Var(X), <<Show(Var(X)),
                             Let(X, Bin("MINUS", Var(X), IntLit(1)))>>),
             Show(IntLit(7))>>),
   Program(<<Let(X, IntLit(0)),
             While(Cmp("LT", Var(X), IntLit(2)),
                   <<Let(Y, IntLit(0)),
                     While(Cmp("NE", Var(Y), IntLit(2)),
                           <<Show(Bin("PLUS", Bin("MUL", Var(X), IntLit(10)), Var(Y))),
                             Let(Y, Bin("PLUS", Var(Y), IntLit(1)))>>),
                     Let(X, Bin("PLUS", Var(X), IntLit(1)))>>)>>),
   Program(<<Let(X, IntLit(0)),
             While(Cmp("LE", Var(X), IntLit(2)),
                   <<IfChain(<< <<Cmp("EQEQ", Var(X), IntLit(0)), <<Show(IntLit(10))>>>>,
                                <<Cmp("EQEQ", Var(X), IntLit(1)), <<Show(IntLit(11))>>>> >>,
                             Some(<<Show(IntLit(99))>>)),
                     Let(X, Bin("PLUS", Var(X), IntLit(1)))>>)>>)}

LoopPrograms == {Count(n) : n \in 0..MaxIter} \cup Loops

\* Trees the parser never builds: a tag or an operator outside the closed
\* sets, at the root and below it.
Bogus == <<"Bogus">>

BadTrees ==
  {<<"Bogus", <<>>>>,
   <<"Bogus", <<Show(IntLit(1))>>>>,
   Bogus,
   Program(<<Bogus>>),
   Program(<<Show(IntLit(1)), Bogus>>),
   Program(<<Let(X, Bogus)>>),
   Program(<<Show(Bogus)>>),
   Program(<<Show(Bin("POW", IntLit(1), IntLit(2)))>>),
   Program(<<Show(Cmp("XX", IntLit(1), IntLit(2)))>>),
   Program(<<Show(Bin("PLUS", IntLit(1), Bin("PLUS", Bogus, IntLit(2))))>>),
   Program(<<Show(Cmp("LT", Cmp("XX", IntLit(1), IntLit(2)), IntLit(2)))>>),
   Program(<<While(Bogus, <<>>)>>),
   Program(<<While(IntLit(0), <<Show(IntLit(1)), Bogus>>)>>),
   Program(<<IfChain(<< <<Bogus, <<>>>> >>, None)>>),
   Program(<<IfChain(<< <<IntLit(1), <<Bogus>>>> >>, None)>>),
   Program(<<IfChain(<< <<IntLit(1), <<>>>>, <<Bin("POW", IntLit(1), IntLit(1)), <<>>>> >>,
                     None)>>),
   Program(<<IfChain(<< <<IntLit(1), <<>>>> >>, Some(<<Bogus>>))>>)}

Trees ==
  ExprPrograms \cup {LetSelf, IfExample} \cup ChainPrograms \cup NestedChains
    \cup LoopPrograms \cup BadTrees

\* let v1 = 1; let v2 = 2; ... let vn = n;
ManyLets(n) == Program([m \in 1..n |-> Let(<<"v">> \o str(m), IntLit(m))])

RECURSIVE RightSum(_)
\* 1 + (1 + (1 + ... )), n additions
RightSum(n) == IF n = 0 THEN IntLit(1) ELSE Bin("PLUS", IntLit(1), RightSum(n - 1))

LargeTrees ==
  {ManyLets(limit_locals), Program(<<Show(RightSum(max_stack_guess))>>),
   IfExample, WhileExample}

-----------------------------------------------------------------------------
(* Specifications.                                                         *)

\* Nothing has run yet.
Nothing ==
  /\ error = NoError /\ cg = Codegen /\ result = <<>> /\ code = <<>>
  /\ pc = 0 /\ stack = <<>> /\ frame = <<>> /\ stdout = <<>>

NoSource == s = <<>> /\ pos = 1 /\ out = <<>>

NoTokens == toks = <<>> /\ i = 1 /\ calls = <<>> /\ ret = <<>>

\* compile_to_jasmin(src), then the class assembled and run.
Init ==
  /\ phase = "lex"
  /\ s \in Sources /\ pos = 1 /\ out = <<>>
  /\ toks = <<>> /\ i = 1 /\ calls = Parser(toks).calls /\ ret = <<>>
  /\ ast = <<>>
  /\ Nothing

Lex == LexToken \/ LexSkip \/ LexEOF

Gen == GenBegin \/ GenStmt \/ GenExpr \/ GenRest \/ GenEmit \/ GenEnd

Next == Lex \/ ParseStep \/ Gen \/ Load \/ Step

Spec == Init /\ [][Next]_vars

\* Parser(toks).program()
InitToks ==
  /\ phase = "parse"
  /\ NoSource
  /\ toks \in TokInputs /\ i = 1 /\ calls = Parser(toks).calls /\ ret = <<>>
  /\ ast = <<>>
  /\ Nothing

SpecToks == InitToks /\ [][ParseStep]_vars

\* Codegen().gen(ast), then the class assembled and run.
InitAst ==
  /\ phase = "gen"
  /\ NoSource /\ NoTokens
  /\ ast \in Trees
  /\ Nothing

NextAst == Gen \/ Load \/ Step

SpecAst == InitAst /\ [][NextAst]_vars

InitLarge ==
  /\ phase = "gen"
  /\ NoSource /\ NoTokens
  /\ ast \in LargeTrees
  /\ Nothing

SpecLarge == InitLarge /\ [][NextAst]_vars

\* Both ways in: the two example programs of the if chain and of the loop
\* compiled from their text, and trees handed to gen.
InitRun ==
  \/ /\ phase = "lex"
     /\ s \in {SrcIf, SrcWhile} /\ pos = 1 /\ out = <<>>
     /\ toks = <<>> /\ i = 1 /\ calls = Parser(toks).calls /\ ret = <<>>
     /\ ast = <<>>
     /\ Nothing
  \/ InitAst

SpecRun == InitRun /\ [][Next]_vars

\* One sequential program, which takes its next step.
FairRun == SpecRun /\ WF_vars(Next)

-----------------------------------------------------------------------------
(* The lexer: two-character operators.                                     *)

TwoChar ==
  (<<"<", "=">> :> "LE") @@ (<<">", "=">> :> "GE") @@
  (<<"=", "=">> :> "EQEQ") @@ (<<"!", "=">> :> "NE")

AtTwoChar(text) ==
  phase = "lex" /\ pos + 1 <= Len(s) /\ SubSeq(s, pos, pos + 1) = text

\* C8: whenever the scan position is at <=, >=, == or !=, the lexer's next
\* step appends exactly one LE, GE, EQEQ or NE token holding both
\* characters and moves the scan position past both; it never emits a token
\* for the first character alone.
C8_MultiCharFirst ==
  [][\A text \in DOMAIN TwoChar :
       AtTwoChar(text) =>
         /\ out' = Append(out, Token(TwoChar[text], text))
         /\ pos' = pos + 2]_vars

\* "<==" has been read as LE, EQ.
C8_Witness ==
  /\ s = <<"<", "=", "=">>
  /\ out = <<Token("LE", <<"<", "=">>), Token("EQ", <<"=">>)>>

-----------------------------------------------------------------------------
(* Chained comparisons: print a < b == c;                                  *)

ChainTree ==
  Program(<<Show(Cmp("EQEQ", Cmp("LT", Var(<<"a">>), Var(<<"b">>)),
                     Var(<<"c">>)))>>)

\* The lines gen emits for the statement, in the post-order of ChainTree.
ChainCode ==
  << <<"  getstatic java/lang/System/out Ljava/io/PrintStream;">>,
     <<"  iload_", "1">>,
     <<"  iload_", "2">>,
     <<"  if_icmplt ", "Cmp_true_", "1">>,
     <<"  iconst_0">>,
     <<"  goto ", "Cmp_end_", "2">>,
     <<"Cmp_true_", "1", ":">>,
     <<"  iconst_1">>,
     <<"Cmp_end_", "2", ":">>,
     <<"  iload_", "3">>,
     <<"  if_icmpeq ", "Cmp_true_", "3">>,
     <<"  iconst_0">>,
     <<"  goto ", "Cmp_end_", "4">>,
     <<"Cmp_true_", "3", ":">>,
     <<"  iconst_1">>,
     <<"Cmp_end_", "4", ":">>,
     <<"  invokevirtual java/io/PrintStream/println(I)V">> >>

\* The lines of main's body, between the two .limit lines and the closing
\* return.
Body(lines) == SubSeq(lines, Entry(lines) + 2, Len(lines) - 2)

AtLoadC == Running /\ code[pc] = <<"  iload_", "3">>

\* C7: a < b == c parses to Cmp(EQEQ, Cmp(LT, a, b), c); the emitted lines
\* are the post-order of that tree (load a, load b, the LT sequence, load c,
\* the EQEQ sequence); and when execution arrives at the load of c the
\* inner comparison has been reduced to a single 0 or 1 on the stack.
C7_ChainedComparison ==
  s = SrcChain =>
    /\ phase \in {"gen", "assemble", "run", "halted"} => ast = ChainTree
    /\ phase \in {"assemble", "run", "halted"} => Body(result[1]) = ChainCode
    /\ AtLoadC => Depth = 2 /\ Top(0) \in {0, 1}
    /\ phase # "failed"

\* Execution is about to load c, with a < b having come out true.
C7_Witness ==
  s = SrcChain /\ ast = ChainTree /\ AtLoadC /\ Top(0) = 1

-----------------------------------------------------------------------------
(* The parser's errors.                                                    *)

ExpectedFmt == "Expected {kind}, got {cur.t} ({cur.v})"

BadStmtFmt == "Bad statement at Token({cur.t},{cur.v})"

BadFactorFmt == "Bad factor at Token({cur.t},{cur.v})"

ParseFailed == phase = "failed" /\ cg = Codegen

KindsOf(tk) == [n \in 1..Len(tk) |-> tk[n].t]

\* The number of leading tokens two sequences share.
Common(ks, js) ==
  LET ns == {n \in 0..Len(ks) :
               n <= Len(js) /\ \A m \in 1..n : ks[m] = js[m]}
  IN  CHOOSE n \in ns : \A m \in ns : m <= n

-----------------------------------------------------------------------------
(* Labels.                                                                 *)

Jumps == {"  goto ", "  ifeq "} \cup {jmp[op] : op \in DOMAIN jmp}

IsJump(line) == line # <<>> /\ line[1] \in Jumps

\* gen has returned its text.
Returned == result # <<>>

\* C1: the label definition lines emitted during one gen call are pairwise
\* distinct; in the returned text every goto, ifeq and if_icmp* names a
\* label with exactly one definition line; and the label counter never
\* decreases from one step of the compilation to the next.
C1_UniqueLabels ==
  /\ [](\A m, n \in 1..Len(cg.lines) :
          IsLabel(cg.lines[m]) /\ cg.lines[m] = cg.lines[n] => m = n)
  /\ [](Returned =>
          \A n \in 1..Len(result[1]) :
            IsJump(result[1][n]) =>
              Cardinality(Targets(result[1], Operand(result[1][n]))) = 1)
  /\ [][cg'.lbl >= cg.lbl]_vars

\* A returned text with two comparisons in it: four labels minted.
C1_Witness ==
  /\ Returned /\ cg.lbl >= 4
  /\ \E n \in 1..Len(result[1]) : result[1][n] = <<"Cmp_end_", "4", ":">>

-----------------------------------------------------------------------------
(* Slots.                                                                  *)

RECURSIVE RefsExpr(_), RefsStmt(_), RefsBlock(_), RefsBranches(_)
\* The variable names of an expression in the order a depth-first,
\* left-to-right walk meets them.
RefsExpr(e) ==
  CASE e[1] = "Var" -> <<e[2]>>
    [] e[1] \in {"Bin", "Cmp"} -> RefsExpr(e[3]) \o RefsExpr(e[4])
    [] OTHER -> <<>>

RefsStmt(st) ==
  CASE st[1] = "Let" -> RefsExpr(st[3]) \o <<st[2]>>
    [] st[1] = "Print" -> RefsExpr(st[2])
    [] st[1] = "While" -> RefsExpr(st[2]) \o RefsBlock(st[3])
    [] st[1] = "IfChain" ->
         RefsBranches(st[2]) \o (IF st[3] = None THEN <<>> ELSE RefsBlock(st[3][1]))

RefsBlock(stmts) ==
  IF stmts = <<>> THEN <<>> ELSE RefsStmt(Head(stmts)) \o RefsBlock(Tail(stmts))

RefsBranches(branches) ==
  IF branches = <<>> THEN <<>>
  ELSE RefsExpr(Head(branches)[1]) \o RefsBlock(Head(branches)[2])
         \o RefsBranches(Tail(branches))

\* The place of a name among the distinct names of refs, by first
\* occurrence.
Rank(refs, name) ==
  LET first == CHOOSE n \in 1..Len(refs) :
                 refs[n] = name /\ \A m \in 1..(n - 1) : refs[m] # name
  IN  Cardinality({refs[m] : m \in 1..first})

\* The tree has no node the generator rejects below its root.
RECURSIVE GoodExpr(_), GoodStmt(_), GoodBlock(_), GoodBranches(_)
GoodExpr(e) ==
  /\ e # <<>>
  /\ CASE e[1] \in {"Int", "Var"} -> TRUE
       [] e[1] = "Bin" ->
            e[2] \in {"PLUS", "MINUS", "MUL", "DIV"} /\ GoodExpr(e[3]) /\ GoodExpr(e[4])
       [] e[1] = "Cmp" ->
            e[2] \in DOMAIN jmp /\ GoodExpr(e[3]) /\ GoodExpr(e[4])
       [] OTHER -> FALSE

GoodStmt(st) ==
  /\ st # <<>>
  /\ CASE st[1] = "Let" -> GoodExpr(st[3])
       [] st[1] = "Print" -> GoodExpr(st[2])
       [] st[1] = "While" -> GoodExpr(st[2]) /\ GoodBlock(st[3])
       [] st[1] = "IfChain" ->
            GoodBranches(st[2]) /\ (st[3] = None \/ GoodBlock(st[3][1]))
       [] OTHER -> FALSE

GoodBlock(stmts) ==
  stmts = <<>> \/ (GoodStmt(Head(stmts)) /\ GoodBlock(Tail(stmts)))

GoodBranches(branches) ==
  \/ branches = <<>>
  \/ /\ GoodExpr(Head(branches)[1]) /\ GoodBlock(Head(branches)[2])
     /\ GoodBranches(Tail(branches))

\* Every node has a kind and an operator of the closed sets, the root
\* included.
GoodTree(tree) == Len(tree) >= 2 /\ tree[1] = "Program" /\ GoodBlock(tree[2])

\* The name the next task hands to slot_of, if it hands one.
Asked ==
  IF phase # "gen" \/ cg.work = <<>> THEN {}
  ELSE LET task == Head(cg.work)
       IN  IF task[1] = "store" THEN {task[2]}
           ELSE IF task[1] = "expr" /\ task[2] # <<>> /\ task[2][1] = "Var"
           THEN {task[2][2]}
           ELSE {}

\* C2: the slots handed out are 1, 2, 3, ... without gap or repeat, never
\* 0, no two names share one, and a name keeps its slot; a new name is the
\* one slot_of is asked about and gets the next free slot; in the returned
\* text of a whole program each name's slot is its rank in the order of
\* first encounter of the depth-first, left-to-right walk that visits a
\* Let's value before its target; and let x = x + 1; loads and stores x in
\* slot 1.
C2_SlotOrder ==
  /\ [](/\ \A a, b \in DOMAIN cg.locals : cg.locals[a] = cg.locals[b] => a = b
        /\ {cg.locals[a] : a \in DOMAIN cg.locals} = 1..(cg.next_slot - 1))
  /\ [][/\ \A a \in DOMAIN cg.locals :
             a \in DOMAIN cg'.locals /\ cg'.locals[a] = cg.locals[a]
        /\ \A a \in DOMAIN cg'.locals \ DOMAIN cg.locals :
             a \in Asked /\ cg'.locals[a] = cg.next_slot]_vars
  /\ [](Returned /\ GoodTree(ast) =>
          LET refs == RefsBlock(ast[2])
          IN  /\ DOMAIN cg.locals = {refs[n] : n \in 1..Len(refs)}
              /\ \A a \in DOMAIN cg.locals : cg.locals[a] = Rank(refs, a))
  /\ [](Returned /\ ast = LetSelf =>
          Body(result[1]) = << <<"  iload_", "1">>, <<"  sipush ", "1">>,
                               <<"  iadd">>, <<"  istore_", "1">> >>)

\* A program whose second name, y, is met before x is stored has been
\* compiled: let y = (x < 2) == x; print y;
C2_Witness ==
  /\ Returned
  /\ ast = Program(<<Let(Y, Cmp("EQEQ", Cmp("LT", Var(X), IntLit(2)), Var(X))),
                     Show(Var(Y))>>)
  /\ cg.locals = (X :> 1) @@ (Y :> 2)

-----------------------------------------------------------------------------
(* Rejected trees.                                                         *)

\* C6, as stated: a tree with a node of a kind or an operator outside the
\* closed sets, at the root or below, is never compiled to a text.
C6_BadNodeAborts == ~GoodTree(ast) => ~Returned

-----------------------------------------------------------------------------
(* Capacities.                                                             *)

Slotted == {"  iload_", "  iload ", "  istore_", "  istore "}

\* The slots the emitted lines load from or store to.
SlotsUsed ==
  {int(Operand(cg.lines[n])) :
     n \in {m \in 1..Len(cg.lines) :
              cg.lines[m] # <<>> /\ cg.lines[m][1] \in Slotted}}

\* C9, as stated: the operand stack of the running code never holds more
\* than the declared limit, and every slot the emitted code loads or
\* stores is below the declared locals count.
C9_CapacitiesSuffice ==
  /\ phase = "run" => Depth <= max_stack_guess
  /\ \A slot \in SlotsUsed : slot < limit_locals

-----------------------------------------------------------------------------
(* Stack balance.                                                          *)

\* What an instruction adds to the depth of the operand stack.
Effect(line) ==
  LET op == Opcode(line)
  IN  CASE op \in {"  sipush ", "  iload_", "  iload ", "  iconst_0", "  iconst_1",
                   "  getstatic java/lang/System/out Ljava/io/PrintStream;"} -> 1
        [] op \in {"  istore_", "  istore ", "  ifeq ",
                   "  iadd", "  isub", "  imul", "  idiv"} -> 0 - 1
        [] op \in {jmp[o] : o \in DOMAIN jmp}
             \cup {"  invokevirtual java/io/PrintStream/println(I)V"} -> 0 - 2
        [] OTHER -> 0

Unreached == 0 - 1

RECURSIVE Flow(_, _, _)
\* One pass over the lines from n on.  f.d is the depth on arrival at line
\* n by falling into it (Unreached after a goto or a return), f.at the
\* depth on arrival at each line passed, f.seen the depth each label
\* passed was arrived at with, f.want the depth each jump ahead arrives
\* with, f.ok whether all arrivals at a line agreed so far and no
\* instruction found too few values.
Flow(lines, n, f) ==
  IF n > Len(lines) THEN f
  ELSE
    LET line == lines[n]
        name == IF IsLabel(line) THEN SubSeq(line, 1, Len(line) - 1)
                ELSE Operand(line)
        here == IF IsLabel(line) /\ name \in DOMAIN f.want
                THEN (IF f.d = Unreached THEN f.want[name] ELSE f.d)
                ELSE f.d
        after == here + Effect(line)
        agree == CASE IsLabel(line) ->
                        name \in DOMAIN f.want => f.want[name] = here
                   [] IsJump(line) ->
                        /\ after >= 0
                        /\ name \in DOMAIN f.seen => f.seen[name] = after
                        /\ name \in DOMAIN f.want => f.want[name] = after
                   [] OTHER -> here = Unreached \/ after >= 0
    IN  Flow(lines, n + 1,
             [d |-> IF Opcode(line) \in {"  goto ", "  return"} THEN Unreached
                    ELSE IF here = Unreached THEN Unreached ELSE after,
              at |-> Append(f.at, here),
              seen |-> IF IsLabel(line) THEN (name :> here) @@ f.seen ELSE f.seen,
              want |-> IF IsJump(line) /\ name \notin DOMAIN f.seen
                       THEN (name :> after) @@ f.want ELSE f.want,
              ok |-> f.ok /\ agree])

\* The pass over main, entered with an empty stack.
Depths(lines) ==
  LET first == Entry(lines)
  IN  Flow(lines, first,
           [d |-> 0, at |-> [n \in 1..(first - 1) |-> Unreached],
            seen |-> <<>>, want |-> <<>>, ok |-> TRUE])

\* Lines where a statement begins or ends: the loop and if labels and the
\* jumps to them, the start of a print, and main's return.
Boundary(line) ==
  \/ IsLabel(line) /\ line[1] \in {"Loop_test_", "Loop_end_", "If_next_", "If_end_"}
  \/ Opcode(line) = "  goto " /\ Operand(line)[1] \in {"Loop_test_", "If_end_"}
  \/ Opcode(line) \in {"  getstatic java/lang/System/out Ljava/io/PrintStream;",
                       "  return"}

\* Lines that consume the value of a whole expression, with the depth the
\* value is at: a store and a test take it from an otherwise empty stack,
\* println from above the stream.
Consumes(line) ==
  CASE Opcode(line) \in {"  istore_", "  istore ", "  ifeq "} -> 1
    [] Opcode(line) = "  invokevirtual java/io/PrintStream/println(I)V" -> 2
    [] OTHER -> 0

\* C10: in the returned text every line of main is arrived at with one
\* depth on every control path; a comparison's true and false paths meet
\* at its end label with one value in place of the two operands; the value
\* of a statement's expression sits alone on the stack (above the stream
\* for a print) when it is consumed; the depth is 0 at every statement
\* boundary, loop label, if label and at main's return; and the running
\* code's stack has that depth at every instruction.
C10_StackBalance ==
  /\ Returned =>
       LET lines == result[1]
           f == Depths(lines)
       IN  /\ f.ok
           /\ \A n \in Entry(lines)..(Len(lines) - 1) :
                /\ Boundary(lines[n]) => f.at[n] = 0
                /\ Consumes(lines[n]) # 0 => f.at[n] = Consumes(lines[n])
                /\ Opcode(lines[n]) \in {jmp[o] : o \in DOMAIN jmp} =>
                     /\ f.at[n] >= 2
                     /\ f.at[n + 3] = f.at[n] - 2
                     /\ f.at[n + 5] = f.at[n] - 1
  /\ Running => Depth = Depths(code).at[pc]
  /\ phase = "halted" => Depth = 0

\* The true path of a comparison has arrived at its end label inside a
\* print: the stream and the comparison's one value are on the stack.
C10_Witness ==
  /\ Running /\ IsLabel(code[pc]) /\ code[pc][1] = "Cmp_end_"
  /\ code[pc - 1] = <<"  iconst_1">>
  /\ stack = <<"System.out", 1>>

-----------------------------------------------------------------------------
(* If chains and loops, run.                                               *)

\* The value a variable has been read or stored with.
ValueOf(name) ==
  IF name \in DOMAIN cg.locals /\ cg.locals[name] \in DOMAIN frame
  THEN frame[cg.locals[name]] ELSE 0

\* A comparison of the language.
Compare(op, a, b) ==
  CASE op = "LT" -> a < b
    [] op = "LE" -> a <= b
    [] op = "GT" -> a > b
    [] op = "GE" -> a >= b
    [] op = "EQEQ" -> a = b
    [] op = "NE" -> a # b

\* An arithmetic operation of the language; division truncates.
Compute(op, a, b) ==
  CASE op = "PLUS" -> a + b
    [] op = "MINUS" -> a - b
    [] op = "MUL" -> a * b
    [] op = "DIV" -> Idiv(a, b)

RECURSIVE Eval(_)
\* The value of an expression of the language.
Eval(e) ==
  CASE e[1] = "Int" -> e[2]
    [] e[1] = "Var" -> ValueOf(e[2])
    [] e[1] = "Bin" -> Compute(e[2], Eval(e[3]), Eval(e[4]))
    [] e[1] = "Cmp" -> IF Compare(e[2], Eval(e[3]), Eval(e[4])) THEN 1 ELSE 0

\* The first branch whose condition is not zero, or 0.
FirstTrue(branches) ==
  LET hits == {n \in 1..Len(branches) : Eval(branches[n][1]) # 0}
  IN  IF hits = {} THEN 0 ELSE CHOOSE n \in hits : \A m \in hits : n <= m

\* What a program of ChainPrograms prints: the number of the one body that
\* runs, if any does, then 7.
Printed(chain) ==
  LET n == FirstTrue(chain[2])
  IN  (IF n # 0 THEN <<10 + n>> ELSE IF chain[3] # None THEN <<99>> ELSE <<>>)
        \o <<7>>

AtJump(op, base) ==
  Running /\ Opcode(code[pc]) = op /\ Operand(code[pc])[1] = base

AtLabel(name) == Running /\ code[pc] = name \o <<":">>

\* The jump under pc goes to the definition of the label it names.
Taken == code[pc'] = Operand(code[pc]) \o <<":">>

IfEnd1 == <<"If_end_", "1">>

ChainTrees == ChainPrograms \cup NestedChains \cup {IfExample}

\* C3: a program of one if chain prints the number of exactly one body:
\* that of the first branch, in order, whose condition is not zero, or of
\* the else when there is one and every condition is zero, or of none; the
\* test of a branch goes to the next branch exactly on zero and a body's
\* closing jump goes to the end label; the example prints 2 alone; and
\* every run of a chain arrives at the chain's end label.
C3_FirstMatch ==
  /\ [](phase = "halted" /\ ast \in ChainPrograms => stdout = Printed(ast[2][3]))
  /\ [](phase = "halted" /\ (ast = IfExample \/ s = SrcIf) => stdout = <<2>>)
  /\ [](s = SrcIf /\ phase \in {"gen", "run"} => ast = IfExample)
  /\ [][AtJump("  ifeq ", "If_next_") =>
          IF Top(0) = 0 THEN Taken ELSE pc' = pc + 1]_vars
  /\ [][AtJump("  goto ", "If_end_") => Taken]_vars
  /\ (phase = "gen" /\ ast \in ChainTrees) ~> AtLabel(IfEnd1)
  /\ (phase = "lex" /\ s = SrcIf) ~> AtLabel(IfEnd1)

\* The second of two branches has run, the first condition having been
\* zero, and the chain's end label is reached.
C3_Witness ==
  /\ ast = Chain(0, <<Var(X), IntLit(2)>>, Some(<<Show(IntLit(99))>>))
  /\ AtLabel(IfEnd1) /\ stdout = <<12>>

UpTo(n) == [k \in 1..n |-> k - 1]

\* C4: the test of a loop leaves through the end label exactly on zero and
\* otherwise enters the body, and the body's closing jump goes back to the
\* test label, where the condition is evaluated again; a loop counting to
\* n prints 0 .. n - 1 and the program then reaches main's return; the
\* example program prints 0, 1, 2 in that order, nothing else, and then
\* reaches the return.
C4_While ==
  /\ [][AtJump("  ifeq ", "Loop_end_") =>
          IF Top(0) = 0 THEN Taken ELSE pc' = pc + 1]_vars
  /\ [][AtJump("  goto ", "Loop_test_") => Taken /\ pc' < pc]_vars
  /\ [](s = SrcWhile /\ phase \in {"gen", "run"} => ast = WhileExample)
  /\ [](s = SrcWhile \/ ast = WhileExample =>
          /\ stdout \in {UpTo(n) : n \in 0..3}
          /\ phase = "halted" => stdout = <<0, 1, 2>>)
  /\ [](\A n \in 0..MaxIter :
          ast = Count(n) =>
            /\ stdout \in {UpTo(m) : m \in 0..n}
            /\ phase = "halted" => stdout = UpTo(n))
  /\ (phase = "lex" /\ s = SrcWhile) ~> (phase = "halted" /\ stdout = <<0, 1, 2>>)
  /\ (phase = "gen" /\ ast \in {Count(n) : n \in 0..MaxIter}) ~> (phase = "halted")

\* The example, compiled from its text, is back at the test after its
\* third turn.
C4_Witness ==
  /\ s = SrcWhile /\ ast = WhileExample
  /\ AtLabel(<<"Loop_test_", "1">>) /\ stdout = <<0, 1, 2>>

=============================================================================
